---- MODULE Spec2Model ----
(***************************************************************************)
(* Model of FirebaseSync (src/run/firebase_sync.py): the local cache       *)
(* directory, the remote bucket, download_file / download_all, and the     *)
(* periodic background loop started by start_auto_sync and stopped by      *)
(* stop_auto_sync.                                                         *)
(*                                                                         *)
(* File contents are abstract byte strings: 0 is "no file", c >= 1 is the  *)
(* complete body number c, and -1 is a truncated file (what a transfer     *)
(* that fails after opening the local file for writing leaves behind).     *)
(*                                                                         *)
(* Time is discrete, one Tick per second.  Steps that do not block (a flag *)
(* test, a call, a return) take no time: Tick is enabled only when every   *)
(* thread is blocked in time.sleep(1), in the network calls of             *)
(* download_all, in join(timeout=5), or is idle.                           *)
(***************************************************************************)
EXTENDS Integers, Sequences, FiniteSets, TLC

\* ---------------------------------------------------------------- bounds
MaxContent == 2
MaxInterval == 2
MaxThreads == 2
MaxCycles == 2

\* ------------------------------------------------------------- constants
Md5DigestSize == 16
JoinTimeout == 5

NoFile == 0
Bodies == 1..MaxContent
Partial == 0 - 1
FileValues == {Partial, NoFile} \cup Bodies

\* The objects of the bucket.  list_blobs returns them in name order.
BlobNames == <<"CONTROLE/A.dwg", "CONTROLE/B.dwg", "CONTROLE/notas.txt", "CONTROLE/old/A.dwg">>
Paths == {BlobNames[i] : i \in 1..Len(BlobNames)}

\* os.path.basename(blob.name)
Basename(p) ==
    CASE p = "CONTROLE/A.dwg" -> "A.dwg"
      [] p = "CONTROLE/old/A.dwg" -> "A.dwg"
      [] p = "CONTROLE/B.dwg" -> "B.dwg"
      [] OTHER -> "notas.txt"

\* blob.name.lower().endswith('.dwg')
IsDwg(p) == p \in {"CONTROLE/A.dwg", "CONTROLE/old/A.dwg", "CONTROLE/B.dwg"}

DwgPaths == {p \in Paths : IsDwg(p)}
CacheNames == {Basename(p) : p \in DwgPaths}

\* ------------------------------------------------------------- digests
\* The 16 bytes hashlib.md5 produces for a byte string (abstract, injective
\* on FileValues).
Md5(c) == [i \in 1..Md5DigestSize |-> ((c + 100) * 37 + i * 11) % 256]

HexChars == <<"0","1","2","3","4","5","6","7","8","9","a","b","c","d","e","f">>

B64Chars == <<"A","B","C","D","E","F","G","H","I","J","K","L","M","N","O","P",
              "Q","R","S","T","U","V","W","X","Y","Z","a","b","c","d","e","f",
              "g","h","i","j","k","l","m","n","o","p","q","r","s","t","u","v",
              "w","x","y","z","0","1","2","3","4","5","6","7","8","9","+","/">>

\* hash_md5.hexdigest(): two lowercase hexadecimal digits per byte.
hexdigest(bytes) ==
    [k \in 1..(2 * Len(bytes)) |->
        LET b == bytes[(k + 1) \div 2]
        IN IF k % 2 = 1 THEN HexChars[(b \div 16) + 1] ELSE HexChars[(b % 16) + 1]]

\* The md5Hash property of an object resource: base64 of the 16 bytes,
\* four characters per group of three bytes, padded with "=".
b64encode(bytes) ==
    LET n == Len(bytes)
        byte(j) == IF j <= n THEN bytes[j] ELSE 0
        groups == (n + 2) \div 3
        sextet(g, s) ==
            LET v == byte(3 * g - 2) * 65536 + byte(3 * g - 1) * 256 + byte(3 * g)
            IN CASE s = 1 -> v \div 262144
                 [] s = 2 -> (v \div 4096) % 64
                 [] s = 3 -> (v \div 64) % 64
                 [] OTHER -> v % 64
        \* character s of group g is padding when it encodes no input byte
        padded(g, s) == (3 * g - 3) + (s - 1) > n
    IN [k \in 1..(4 * groups) |->
          LET g == (k + 3) \div 4
              s == ((k - 1) % 4) + 1
          IN IF padded(g, s) THEN "=" ELSE B64Chars[sextet(g, s) + 1]]

\* blob.md5_hash of a blob that carries no metadata (None).
NoDigest == <<>>

\* The two encodings of every file value's digest, computed once.
HexDigestOf == [c \in FileValues |-> hexdigest(Md5(c))]
Base64DigestOf == [c \in FileValues |-> b64encode(Md5(c))]

\* _calculate_md5 giving the digest in the store's encoding.
calculate_md5_base64(c) == Base64DigestOf[c]

\* FirebaseSync._calculate_md5
calculate_md5(c) == HexDigestOf[c]

\* blob.md5_hash of a listed object
blob_md5_hash(c) == Base64DigestOf[c]

\* ------------------------------------------------ the remote store's faults
\* What the network does to one download_file call:
\*   "ok"      every call succeeds;
\*   "neterr"  the store is unreachable: the first network call raises;
\*   "xfer"    download_to_filename raises in mid-transfer, after it has
\*             opened the local file for writing: a truncated file is left;
\*   "corrupt" download_to_filename detects a checksum mismatch, deletes the
\*             local file and raises.
Outcomes == {"ok", "neterr", "xfer", "corrupt"}

\* ------------------------------------------------------------ list_files
\* The listing: one entry per .dwg blob under the prefix, in name order;
\* [] when the listing raises.
list_files(rem, listOk) ==
    IF ~listOk THEN <<>>
    ELSE LET present == SelectSeq(BlobNames, LAMBDA p : rem[p] # NoFile /\ IsDwg(p))
         IN [k \in 1..Len(present) |->
               [nome |-> Basename(present[k]),
                caminho |-> present[k],
                md5_hash |-> blob_md5_hash(rem[present[k]])]]

\* ------------------------------------------------- the blob and the cache test
\* The sizes and modification times the store may report for one object.
Sizes == {1024, 2048}
Updated == {"2024-01-01T00:00:00", "2025-06-30T12:00:00"}

\* The blob object of bucket.blob(remote_path) as download_file sees it:
\* whether the object exists, its md5_hash (None unless the metadata is
\* loaded), its size and its time of last modification.
blob_of(rem, remote_path, loaded, size, updated) ==
    [exists |-> rem[remote_path] # NoFile,
     md5_hash |-> IF loaded /\ rem[remote_path] # NoFile
                  THEN blob_md5_hash(rem[remote_path]) ELSE NoDigest,
     size |-> size,
     updated |-> updated]

\* The cache test taking every local file that exists as current.
cache_test_exists(local_file, force, blob) ==
    /\ local_file # NoFile
    /\ ~force
    /\ blob.exists

\* The cache test taking an object not modified since the first date as current.
cache_test_by_date(local_file, force, blob) ==
    /\ local_file # NoFile
    /\ ~force
    /\ blob.exists
    /\ \/ calculate_md5(local_file) = blob.md5_hash
       \/ blob.updated = "2024-01-01T00:00:00"

\* Lines 162-170 of download_file: TRUE when the local file is served from
\* the cache.
cache_test(local_file, force, blob) ==
    /\ local_file # NoFile
    /\ ~force
    /\ blob.exists
    /\ calculate_md5(local_file) = blob.md5_hash

\* download_file with line 162 serving any existing local file.
download_file_stale(c, rem, remote_path, force, out, loaded) ==
    LET name == Basename(remote_path)
    IN IF out = "neterr"
       THEN [cache |-> c, status |-> "None", fetch |-> 0, net |-> 1]
       ELSE IF c[name] # NoFile /\ ~force
       THEN [cache |-> c, status |-> "cached", fetch |-> 0, net |-> 1]
       ELSE IF rem[remote_path] = NoFile
       THEN [cache |-> c, status |-> "None", fetch |-> 0, net |-> 1]
       ELSE IF out = "ok"
       THEN [cache |-> [c EXCEPT ![name] = rem[remote_path]],
             status |-> "downloaded", fetch |-> 1, net |-> 2]
       ELSE [cache |-> [c EXCEPT ![name] = IF out = "xfer" THEN Partial ELSE NoFile],
             status |-> "None", fetch |-> 1, net |-> 2]

\* download_file without its try/except: a fault leaves it as an exception.
download_file_unguarded(c, rem, remote_path, force, out, loaded) ==
    LET name == Basename(remote_path)
        probes == IF c[name] # NoFile /\ ~force THEN 2 ELSE 1
    IN IF out = "neterr"
       THEN [cache |-> c, status |-> "raised", fetch |-> 0, net |-> 1]
       ELSE IF rem[remote_path] = NoFile
       THEN [cache |-> c, status |-> "None", fetch |-> 0, net |-> probes]
       ELSE IF out = "ok"
       THEN [cache |-> [c EXCEPT ![name] = rem[remote_path]],
             status |-> "downloaded", fetch |-> 1, net |-> probes + 1]
       ELSE [cache |-> [c EXCEPT ![name] = IF out = "xfer" THEN Partial ELSE NoFile],
             status |-> "raised", fetch |-> 1, net |-> probes + 1]

\* download_file when a transfer found corrupt leaves its bytes in place.
download_file_keeps_corrupt(c, rem, remote_path, force, out, loaded) ==
    LET name == Basename(remote_path)
        probes == IF c[name] # NoFile /\ ~force THEN 2 ELSE 1
    IN IF out = "neterr"
       THEN [cache |-> c, status |-> "None", fetch |-> 0, net |-> 1]
       ELSE IF rem[remote_path] = NoFile
       THEN [cache |-> c, status |-> "None", fetch |-> 0, net |-> probes]
       ELSE IF out = "ok"
       THEN [cache |-> [c EXCEPT ![name] = rem[remote_path]],
             status |-> "downloaded", fetch |-> 1, net |-> probes + 1]
       ELSE [cache |-> [c EXCEPT ![name] = Partial],
             status |-> "None", fetch |-> 1, net |-> probes + 1]

\* download_file whose cache test ignores the force argument.
download_file_unforced(c, rem, remote_path, force, out, loaded) ==
    LET name == Basename(remote_path)
        blob_exists == rem[remote_path] # NoFile
        md5_hash == IF loaded /\ blob_exists
                    THEN blob_md5_hash(rem[remote_path]) ELSE NoDigest
        checks == c[name] # NoFile
        hit == checks /\ blob_exists /\ calculate_md5(c[name]) = md5_hash
        probes == IF checks THEN 2 ELSE 1
    IN IF out = "neterr"
       THEN [cache |-> c, status |-> "None", fetch |-> 0, net |-> 1]
       ELSE IF hit
       THEN [cache |-> c, status |-> "cached", fetch |-> 0, net |-> 1]
       ELSE IF ~blob_exists
       THEN [cache |-> c, status |-> "None", fetch |-> 0, net |-> probes]
       ELSE IF out = "ok"
       THEN [cache |-> [c EXCEPT ![name] = rem[remote_path]],
             status |-> "downloaded", fetch |-> 1, net |-> probes + 1]
       ELSE [cache |-> [c EXCEPT ![name] = IF out = "xfer" THEN Partial ELSE NoFile],
             status |-> "None", fetch |-> 1, net |-> probes + 1]

\* download_file taking a blob without digest as unchanged.
download_file_nodigest_valid(c, rem, remote_path, force, out, loaded) ==
    LET name == Basename(remote_path)
        blob_exists == rem[remote_path] # NoFile
        md5_hash == IF loaded /\ blob_exists
                    THEN blob_md5_hash(rem[remote_path]) ELSE NoDigest
        checks == c[name] # NoFile /\ ~force
        hit == checks /\ blob_exists
                  /\ (md5_hash = NoDigest \/ calculate_md5(c[name]) = md5_hash)
        probes == IF checks THEN 2 ELSE 1
    IN IF out = "neterr"
       THEN [cache |-> c, status |-> "None", fetch |-> 0, net |-> 1]
       ELSE IF hit
       THEN [cache |-> c, status |-> "cached", fetch |-> 0, net |-> 1]
       ELSE IF ~blob_exists
       THEN [cache |-> c, status |-> "None", fetch |-> 0, net |-> probes]
       ELSE IF out = "ok"
       THEN [cache |-> [c EXCEPT ![name] = rem[remote_path]],
             status |-> "downloaded", fetch |-> 1, net |-> probes + 1]
       ELSE [cache |-> [c EXCEPT ![name] = IF out = "xfer" THEN Partial ELSE NoFile],
             status |-> "None", fetch |-> 1, net |-> probes + 1]

\* download_file writing the fetched bytes only where no complete file stands
\* under the basename yet.
download_file_keeps_existing(c, rem, remote_path, force, out, loaded) ==
    LET name == Basename(remote_path)
        blob == blob_of(rem, remote_path, loaded, 1024, "2024-01-01T00:00:00")
        probes == IF c[name] # NoFile /\ ~force THEN 2 ELSE 1
    IN IF out = "neterr"
       THEN [cache |-> c, status |-> "None", fetch |-> 0, net |-> 1]
       ELSE IF cache_test(c[name], force, blob)
       THEN [cache |-> c, status |-> "cached", fetch |-> 0, net |-> 1]
       ELSE IF rem[remote_path] = NoFile
       THEN [cache |-> c, status |-> "None", fetch |-> 0, net |-> probes]
       ELSE IF out = "ok"
       THEN [cache |-> IF c[name] \in Bodies THEN c
                       ELSE [c EXCEPT ![name] = rem[remote_path]],
             status |-> "downloaded", fetch |-> 1, net |-> probes + 1]
       ELSE [cache |-> [c EXCEPT ![name] = IF out = "xfer" THEN Partial ELSE NoFile],
             status |-> "None", fetch |-> 1, net |-> probes + 1]

\* download_file removing the local file of an object the bucket no longer
\* holds.
download_file_prunes(c, rem, remote_path, force, out, loaded) ==
    LET name == Basename(remote_path)
        blob == blob_of(rem, remote_path, loaded, 1024, "2024-01-01T00:00:00")
        probes == IF c[name] # NoFile /\ ~force THEN 2 ELSE 1
    IN IF out = "neterr"
       THEN [cache |-> c, status |-> "None", fetch |-> 0, net |-> 1]
       ELSE IF cache_test(c[name], force, blob)
       THEN [cache |-> c, status |-> "cached", fetch |-> 0, net |-> 1]
       ELSE IF rem[remote_path] = NoFile
       THEN [cache |-> [c EXCEPT ![name] = NoFile],
             status |-> "None", fetch |-> 0, net |-> probes]
       ELSE IF out = "ok"
       THEN [cache |-> [c EXCEPT ![name] = rem[remote_path]],
             status |-> "downloaded", fetch |-> 1, net |-> probes + 1]
       ELSE [cache |-> [c EXCEPT ![name] = IF out = "xfer" THEN Partial ELSE NoFile],
             status |-> "None", fetch |-> 1, net |-> probes + 1]

\* ---------------------------------------------------------- download_file
\* c: the cache directory, rem: the bucket, out: the fault of this call,
\* loaded: whether the blob object built by bucket.blob() carries the
\* object's metadata when md5_hash is read.
\* Result: the cache afterwards, the status returned ("cached",
\* "downloaded", or "None"), the number of download_to_filename calls and
\* the number of network calls (exists and download).
download_file(c, rem, remote_path, force, out, loaded) ==
    LET name == Basename(remote_path)
        local_file == c[name]
        blob_exists == rem[remote_path] # NoFile
        blob == blob_of(rem, remote_path, loaded, 1024, "2024-01-01T00:00:00")
        checks == local_file # NoFile /\ ~force
        hit == cache_test(local_file, force, blob)
        probes == IF checks THEN 2 ELSE 1
    IN IF out = "neterr"
       THEN [cache |-> c, status |-> "None", fetch |-> 0, net |-> 1]
       ELSE IF hit
       THEN [cache |-> c, status |-> "cached", fetch |-> 0, net |-> 1]
       ELSE IF ~blob_exists
       THEN [cache |-> c, status |-> "None", fetch |-> 0, net |-> probes]
       ELSE IF out = "ok"
       THEN [cache |-> [c EXCEPT ![name] = rem[remote_path]],
             status |-> "downloaded", fetch |-> 1, net |-> probes + 1]
       ELSE IF out = "xfer"
       THEN [cache |-> [c EXCEPT ![name] = Partial],
             status |-> "None", fetch |-> 1, net |-> probes + 1]
       ELSE [cache |-> [c EXCEPT ![name] = NoFile],
             status |-> "None", fetch |-> 1, net |-> probes + 1]

\* ----------------------------------------------------------- download_all
\* One pass of the for loop of download_all over arquivos[k..], acc holding
\* the cache, the stats and the number of fetches so far.  A status other
\* than the three download_file returns is an exception leaving the loop.
RECURSIVE download_all_loop(_, _, _, _, _, _, _)
download_all_loop(k, arquivos, acc, rem, force, outs, loaded) ==
    IF k > Len(arquivos) \/ acc.raised THEN acc
    ELSE LET arquivo == arquivos[k]
             r == download_file(acc.cache, rem, arquivo.caminho, force,
                                outs[arquivo.caminho], loaded)
             next ==
                CASE r.status = "downloaded" ->
                        [acc EXCEPT !.downloaded = @ + 1]
                  [] r.status = "cached" ->
                        [acc EXCEPT !.cached = @ + 1]
                  [] r.status = "None" ->
                        [acc EXCEPT !.failed = @ + 1]
                  [] OTHER ->
                        [acc EXCEPT !.raised = TRUE]
         IN download_all_loop(k + 1, arquivos,
                [next EXCEPT !.cache = r.cache, !.fetch = @ + r.fetch,
                             !.net = @ + r.net, !.calls = @ + 1],
                rem, force, outs, loaded)

download_all(c, rem, force, outs, loaded, listOk) ==
    LET arquivos == list_files(rem, listOk)
    IN download_all_loop(1, arquivos,
          [cache |-> c, downloaded |-> 0, cached |-> 0, failed |-> 0,
           fetch |-> 0, net |-> 0, calls |-> 0, listed |-> Len(arquivos),
           raised |-> FALSE],
          rem, force, outs, loaded)

\* stats whose 'failed' is never incremented.
stats_of_uncounted(acc) ==
    [downloaded |-> acc.downloaded, cached |-> acc.cached, failed |-> 0]

\* stats counting every fetch that was begun as downloaded.
stats_of_overcount(acc) ==
    [downloaded |-> acc.fetch, cached |-> acc.cached, failed |-> acc.failed]

\* The dictionary download_all returns.
stats_of(acc) ==
    [downloaded |-> acc.downloaded, cached |-> acc.cached, failed |-> acc.failed]

\* -------------------------------------------------------- get_cache_path
\* The default cache directory, under the system's temporary directory.
cache_dir == "banco_projetos_dwg"

\* A path is the sequence of its components.
\* get_cache_path joining nothing: the bare file name.
get_cache_path_flat(dir, filename) == <<filename>>

\* str(self.cache_dir / filename)
get_cache_path(dir, filename) == <<dir, filename>>

\* ------------------------------------------------------------ sync_folder
\* The entries os.listdir gives for the local folder, in name order, and the
\* folders the administrator may hold: each drawing absent or with a body.
FolderNames == <<"A.dwg", "B.dwg", "notas.txt">>
FolderDwgs == {"A.dwg", "B.dwg"}
Folders == {f \in [{FolderNames[i] : i \in 1..Len(FolderNames)} -> {NoFile} \cup Bodies] :
               f["notas.txt"] = 1}

\* What happens to one local file during sync_folder:
\*   "ok"         it is read and sent;
\*   "unreadable" opening it raises (locked by another program, no permission);
\*   "upfail"     the store refuses or drops the upload.
PushOutcomes == {"ok", "unreadable", "upfail"}

\* upload_file(local_path, remote_path): the bucket afterwards and the
\* boolean returned; every exception inside is caught.
upload_file(rem, folder, filename, remote_path, fault) ==
    IF folder[filename] = NoFile THEN [remote |-> rem, ok |-> FALSE]
    ELSE IF fault # "ok" THEN [remote |-> rem, ok |-> FALSE]
    ELSE [remote |-> [rem EXCEPT ![remote_path] = folder[filename]], ok |-> TRUE]

\* {f['nome']: f for f in list_files(prefix)}: a later entry of the listing
\* replaces an earlier one of the same name.
remote_files(arquivos) ==
    [n \in {arquivos[k].nome : k \in 1..Len(arquivos)} |->
        arquivos[CHOOSE k \in 1..Len(arquivos) :
                    /\ arquivos[k].nome = n
                    /\ \A j \in 1..Len(arquivos) : arquivos[j].nome = n => j <= k]]

\* The for loop of sync_folder over local_files[k..].  _calculate_md5 stands
\* outside any try: an unreadable file that has a remote counterpart raises
\* out of the loop.
RECURSIVE sync_folder_loop(_, _, _, _, _, _, _)
sync_folder_loop(k, local_files, acc, folder, remotes, remote_prefix, faults) ==
    IF k > Len(local_files) \/ acc.raised THEN acc
    ELSE LET filename == local_files[k]
             remote_path == remote_prefix \o filename
             listed == filename \in DOMAIN remotes
             md5_raises == listed /\ faults[filename] = "unreadable"
             needs_upload ==
                ~(listed /\ calculate_md5(folder[filename]) = remotes[filename].md5_hash)
             u == upload_file(acc.remote, folder, filename, remote_path, faults[filename])
             next ==
                IF md5_raises THEN [acc EXCEPT !.raised = TRUE]
                ELSE IF ~needs_upload THEN [acc EXCEPT !.skipped = @ + 1]
                ELSE IF u.ok
                THEN [acc EXCEPT !.remote = u.remote, !.uploaded = @ + 1,
                                 !.sent = @ \cup {filename}]
                ELSE [acc EXCEPT !.failed = @ + 1, !.sent = @ \cup {filename}]
         IN sync_folder_loop(k + 1, local_files, next, folder, remotes,
                             remote_prefix, faults)

\* sync_folder(local_folder, remote_prefix); folderOk: the folder exists.
\* sent: the files handed to upload_file.
sync_folder(rem, folder, folderOk, remote_prefix, faults, listOk) ==
    LET start == [remote |-> rem, uploaded |-> 0, skipped |-> 0, failed |-> 0,
                  sent |-> {}, raised |-> FALSE]
        local_files == SelectSeq(FolderNames,
                          LAMBDA f : f \in FolderDwgs /\ folder[f] # NoFile)
    IN IF ~folderOk THEN start
       ELSE sync_folder_loop(1, local_files, start, folder,
                             remote_files(list_files(rem, listOk)),
                             remote_prefix, faults)

\* The dictionary sync_folder returns.
push_stats(acc) ==
    [uploaded |-> acc.uploaded, skipped |-> acc.skipped, failed |-> acc.failed]

\* ------------------------------------------------------------ clear_cache
\* The orders in which shutil.rmtree may come upon the files of the cache
\* directory.
ScanOrders == {<<"A.dwg", "B.dwg">>, <<"B.dwg", "A.dwg">>}
NoName == ""

\* shutil.rmtree(cache_dir) followed by mkdir, inside try/except: the files
\* are removed in scan order up to the first one that cannot be removed
\* (locked: held open by another program); the exception is caught.
clear_cache(c, order, locked) ==
    LET stuck == {k \in 1..Len(order) : order[k] = locked /\ c[order[k]] # NoFile}
        stop == IF stuck = {} THEN Len(order) + 1 ELSE CHOOSE k \in stuck : TRUE
    IN [cache |-> [n \in DOMAIN c |->
                     IF \E k \in 1..Len(order) : order[k] = n /\ k < stop
                     THEN NoFile ELSE c[n]],
        failed |-> stuck # {}]

\* ------------------------------------------------------ the refresh loop
Intervals == 0..MaxInterval
ThreadIds == 1..MaxThreads
NoThread == 0

\* A thread object that was never started.
Unborn == [pc |-> "unborn", interval |-> 0, i |-> 0, cycles |-> 0, caught |-> FALSE]

\* threading.Thread.is_alive()
is_alive(th) == th.pc \notin {"unborn", "dead"}

\* `while True:` in place of the flag test.
while_step_forever(th, run) == [th EXCEPT !.pc = "call"]

\* `while self.running:` of _auto_sync_loop
while_step(th, run) ==
    IF run THEN [th EXCEPT !.pc = "call"] ELSE [th EXCEPT !.pc = "dead"]

\* What download_all may do to the loop that called it: return ("no"), or
\* raise something its own handlers do not catch, at its first print before
\* any download ("before") or at its summary after the last ("after").
Crashes == {"no", "before", "after"}

\* The loop body without try/except: the exception ends the thread.
cycle_end_step_uncaught(th, crash) ==
    IF crash # "no" THEN [th EXCEPT !.pc = "dead", !.caught = FALSE]
    ELSE [th EXCEPT !.pc = "for", !.i = 0, !.caught = FALSE]

\* try/except of lines 344-348: whether download_all returned or raised,
\* the loop goes on to its wait; caught: the except branch was taken.
cycle_end_step(th, crash) ==
    [th EXCEPT !.pc = "for", !.i = 0, !.caught = (crash # "no")]

\* The wait without its flag test: it sleeps the whole interval.
for_step_nobreak(th, run) ==
    IF th.i >= th.interval THEN [th EXCEPT !.pc = "while"]
    ELSE [th EXCEPT !.pc = "sleep"]

\* One iteration head of `for _ in range(interval)`: leave the loop when the
\* range is exhausted or the flag is cleared, else enter time.sleep(1).
for_step(th, run) ==
    IF th.i >= th.interval THEN [th EXCEPT !.pc = "while"]
    ELSE IF ~run THEN [th EXCEPT !.pc = "while"]
    ELSE [th EXCEPT !.pc = "sleep"]

\* ------------------------------------------------------------ AuthManager
Usernames == {"admin", "ana"}
NoUsername == ""
Passwords == {"admin", "s3nha", ""}

\* hashlib.sha256(password.encode('utf-8')).hexdigest()
hash_password(password) ==
    CASE password = "admin" ->
            "8c6976e5b5410415bde908bd4dee15dfb167a9c873fc4bb8a81f6f2ab448a918"
      [] password = "s3nha" ->
            "96cb0142bbe4657864d05137c0c36d9e1516c4ce23c231340e6d341e29531cd0"
      [] password = "" ->
            "e3b0c44298fc1c149afbf4c8996fb92427ae41e4649b934ca495991b7852b855"

\* users_data: has_users tells whether the dictionary has the key "users"
\* (its only key), users maps each user name to its password_hash.
NoUsers == [u \in {} |-> ""]
EmptyObject == [has_users |-> FALSE, users |-> NoUsers]
EmptyTable == [has_users |-> TRUE, users |-> NoUsers]
DefaultUsers ==
    [has_users |-> TRUE, users |-> [u \in {"admin"} |-> hash_password("admin")]]

\* The users file: missing, not readable as JSON, or holding a JSON object.
MissingFile == [state |-> "missing", data |-> EmptyObject]
UsersFiles ==
    {MissingFile,
     [state |-> "unreadable", data |-> EmptyObject],
     [state |-> "json", data |-> EmptyObject],
     [state |-> "json", data |-> EmptyTable],
     [state |-> "json", data |-> [has_users |-> TRUE,
                                  users |-> [u \in {"ana"} |-> hash_password("s3nha")]]]}

\* _load_users: {} when the file is missing or json.load raises.
load_users(file) == IF file.state = "json" THEN file.data ELSE EmptyObject

\* _save_users: the file afterwards; a failure to write is printed only.
save_users(file, users_data, saveOk) ==
    IF saveOk THEN [state |-> "json", data |-> users_data] ELSE file

\* `if not self.users_data:` of __init__: an empty dictionary.
needs_default_user(users_data) == ~users_data.has_users

\* authenticate accepting every password of a known user.
authenticate_known_user(users_data, username, password) ==
    username \in DOMAIN users_data.users

\* authenticate(username, password)
authenticate(users_data, username, password) ==
    IF username = NoUsername \/ password = "" THEN FALSE
    ELSE IF username \notin DOMAIN users_data.users THEN FALSE
    ELSE users_data.users[username] = hash_password(password)

\* ------------------------------------------------------ threads of BuscaDWG
\* The thread targets that call into FirebaseSync: sync_thread (startup),
\* sync_and_reload (F5 / Atualizar) and the UI thread itself inside
\* copiar_para_clipboard.
NoWorker ==
    [pc |-> "off", kind |-> "none", todo |-> <<>>, body |-> NoFile, raced |-> FALSE]

\* The cache file a thread at pc "file" or "writing" is working on.
target(wk) == Basename(Head(wk.todo))

\* A thread that has left one download_file: on to the next listed file.
next_file(wk) ==
    IF Len(wk.todo) > 1
    THEN [wk EXCEPT !.pc = "file", !.todo = Tail(@), !.body = NoFile, !.raced = FALSE]
    ELSE NoWorker

\* ------------------------------------------------------------------ state
VARIABLES
    remote,         \* the bucket: path -> body (NoFile when absent)
    cache,          \* the cache directory: basename -> file value
    running,        \* self.running
    sync_thread,    \* self.sync_thread (NoThread for None)
    thr,            \* the thread objects: id -> [pc, interval, i, cycles, caught]
    callerPc,       \* the calling thread: "idle", or "joining" inside join()
    joinLeft,       \* seconds left of join(timeout=5)
    ret,            \* what the last call of the caller returned and did
    clean,          \* the last download_all resolved every listed object
                    \* and neither the bucket nor the cache changed since
    stopReturned,   \* stop_auto_sync has returned and no start succeeded since
    sleptCleared,   \* sleeps completed with the flag cleared since the last start
    auth,           \* the AuthManager: whether it is constructed, its
                    \* users_data and the content of its users file
    ui,             \* BuscaDWG: "init" until __init__ has run, then "ready",
                    \* or "offline" when FirebaseSync() raised
    workers         \* the threads of BuscaDWG inside download_all or
                    \* download_file

vars == <<remote, cache, running, sync_thread, thr, callerPc, joinLeft, ret,
          clean, stopReturned, sleptCleared, auth, ui, workers>>

\* The state outside FirebaseSync.
appVars == <<auth, ui, workers>>

loopVars == <<running, sync_thread, thr, callerPc, joinLeft, stopReturned, sleptCleared>>

NoRet == [op |-> "none"]

\* The state after FirebaseSync() has been constructed: any bucket content,
\* an empty cache directory, no thread, running = False.
Init ==
    /\ remote \in [Paths -> {NoFile} \cup Bodies]
    /\ remote["CONTROLE/notas.txt"] = 1
    /\ cache = [n \in CacheNames |-> NoFile]
    /\ running = FALSE
    /\ sync_thread = NoThread
    /\ thr = [t \in ThreadIds |-> Unborn]
    /\ callerPc = "idle"
    /\ joinLeft = 0
    /\ ret = NoRet
    /\ clean = FALSE
    /\ stopReturned = FALSE
    /\ sleptCleared = 0
    /\ auth \in {[constructed |-> FALSE, users_data |-> EmptyObject, file |-> f] :
                    f \in UsersFiles}
    /\ ui = "init"
    /\ workers = [w \in ThreadIds |-> NoWorker]

\* ------------------------------------------------- the bucket's single writer
\* An upload or a deletion by the administrator.
RemoteChange(p, b) ==
    /\ remote[p] # b
    /\ remote' = [remote EXCEPT ![p] = b]
    /\ clean' = FALSE
    /\ UNCHANGED <<cache, ret>>
    /\ UNCHANGED loopVars
    /\ UNCHANGED appVars

\* --------------------------------------------------- calls of the caller
\* How the cached file of a path stands to the remote object before a call.
local_state(c, rem, p) ==
    CASE c[Basename(p)] = NoFile -> "absent"
      [] c[Basename(p)] = rem[p] -> "same"
      [] OTHER -> "differs"

\* download_file(remote_path, force)
DownloadFileCall(p, force, out, loaded) ==
    /\ callerPc = "idle"
    /\ \E r \in {download_file(cache, remote, p, force, out, loaded)} :
          /\ cache' = r.cache
          /\ ret' = [op |-> "download_file", path |-> p,
                     pre |-> local_state(cache, remote, p),
                     status |-> r.status, fetch |-> r.fetch, net |-> r.net,
                     loaded |-> loaded]
          /\ clean' = (clean /\ r.cache = cache)
    /\ UNCHANGED remote
    /\ UNCHANGED loopVars
    /\ UNCHANGED appVars

\* download_all(force)
DownloadAllCall(force, outs, loaded, listOk) ==
    /\ callerPc = "idle"
    /\ \E a \in {download_all(cache, remote, force, outs, loaded, listOk)},
          faulty \in {Cardinality({p \in DOMAIN outs : outs[p] # "ok"})},
          unreachable \in {Cardinality({p \in DOMAIN outs : outs[p] = "neterr"})} :
          /\ cache' = a.cache
          /\ ret' = IF a.raised THEN [op |-> "download_all", raised |-> TRUE]
                    ELSE [op |-> "download_all", raised |-> FALSE,
                          force |-> force, stats |-> stats_of(a),
                          fetch |-> a.fetch, net |-> a.net, calls |-> a.calls,
                          listed |-> a.listed,
                          faulty |-> faulty, unreachable |-> unreachable,
                          wasClean |-> clean]
          /\ clean' = (listOk /\ ~a.raised /\ a.failed = 0)
    /\ UNCHANGED remote
    /\ UNCHANGED loopVars
    /\ UNCHANGED appVars

\* get_cache_path(filename): a pure path computation.
GetCachePathCall(name) ==
    /\ callerPc = "idle"
    /\ ret' = [op |-> "get_cache_path", name |-> name,
               value |-> get_cache_path(cache_dir, name),
               exists |-> cache[name] # NoFile, net |-> 0]
    /\ UNCHANGED <<remote, cache, clean>>
    /\ UNCHANGED loopVars
    /\ UNCHANGED appVars

\* list_files(): the listing, or [] when the store cannot be reached.
ListFilesCall(listOk) ==
    /\ callerPc = "idle"
    /\ ret' = [op |-> "list_files", value |-> list_files(remote, listOk),
               failed |-> ~listOk]
    /\ UNCHANGED <<remote, cache, clean>>
    /\ UNCHANGED loopVars
    /\ UNCHANGED appVars

\* sync_folder(pasta_controle, "CONTROLE/") of the administrator's upload
\* script.  needed: the local drawings with no remote counterpart or with
\* one of other bytes; files: the local drawings.
SyncFolderCall(folder, folderOk, faults, listOk) ==
    /\ callerPc = "idle"
    /\ \E a \in {sync_folder(remote, folder, folderOk, "CONTROLE/", faults, listOk)},
          files \in {{f \in FolderDwgs : folderOk /\ folder[f] # NoFile}} :
          /\ remote' = a.remote
          /\ ret' = IF a.raised
                    THEN [op |-> "sync_folder", raised |-> TRUE, files |-> files]
                    ELSE [op |-> "sync_folder", raised |-> FALSE, files |-> files,
                          stats |-> push_stats(a), sent |-> a.sent,
                          needed |-> {f \in files : remote["CONTROLE/" \o f] # folder[f]},
                          listOk |-> listOk,
                          faulty |-> {f \in files : faults[f] # "ok"}]
    /\ clean' = FALSE
    /\ UNCHANGED cache
    /\ UNCHANGED loopVars
    /\ UNCHANGED appVars

\* clear_cache()
ClearCacheCall(order, locked) ==
    /\ callerPc = "idle"
    /\ \E r \in {clear_cache(cache, order, locked)} :
          /\ cache' = r.cache
          /\ ret' = [op |-> "clear_cache", value |-> "None",
                     printed |-> IF r.failed THEN "Erro ao limpar cache"
                                 ELSE "Cache limpo"]
          /\ clean' = (clean /\ r.cache = cache)
    /\ UNCHANGED remote
    /\ UNCHANGED loopVars
    /\ UNCHANGED appVars

\* main() of sync_inicial.py: folder check, the --dry-run exit, the
\* confirmation prompt, then sync_folder inside try/except.  args.force is
\* read for the warning text only.  code: the exit status.
SyncInicialCall(force, dry_run, confirmed, folder, folderOk, faults, listOk) ==
    /\ callerPc = "idle"
    /\ \E files \in {{f \in FolderDwgs : folderOk /\ folder[f] # NoFile}} :
          IF ~folderOk \/ files = {} \/ dry_run \/ ~confirmed
          THEN /\ remote' = remote
               /\ ret' = [op |-> "sync_inicial", ran |-> FALSE,
                          code |-> IF ~folderOk \/ files = {} THEN 1 ELSE 0]
               /\ clean' = clean
          ELSE \E a \in {sync_folder(remote, folder, folderOk, "CONTROLE/",
                                     faults, listOk)} :
               /\ remote' = a.remote
               /\ ret' = IF a.raised
                         THEN [op |-> "sync_inicial", ran |-> TRUE, code |-> 1]
                         ELSE [op |-> "sync_inicial", ran |-> TRUE, code |-> 0,
                               force |-> force, files |-> files,
                               stats |-> push_stats(a), sent |-> a.sent,
                               needed |-> {f \in files :
                                             remote["CONTROLE/" \o f] # folder[f]}]
               /\ clean' = FALSE
    /\ UNCHANGED cache
    /\ UNCHANGED loopVars
    /\ UNCHANGED appVars

\* ------------------------------------------------------ calls on AuthManager
\* AuthManager(): loads the users file and creates admin/admin when the
\* loaded dictionary is empty.
AuthInit(saveOk) ==
    /\ ~auth.constructed
    /\ \E loaded \in {load_users(auth.file)} :
          IF needs_default_user(loaded)
          THEN auth' = [constructed |-> TRUE, users_data |-> DefaultUsers,
                        file |-> save_users(auth.file, DefaultUsers, saveOk)]
          ELSE auth' = [constructed |-> TRUE, users_data |-> loaded, file |-> auth.file]
    /\ ret' = [op |-> "AuthManager"]
    /\ UNCHANGED <<remote, cache, clean>>
    /\ UNCHANGED <<ui, workers>>
    /\ UNCHANGED loopVars

\* authenticate(username, password)
AuthenticateCall(username, password) ==
    /\ auth.constructed
    /\ ret' = [op |-> "authenticate", username |-> username,
               value |-> authenticate(auth.users_data, username, password)]
    /\ UNCHANGED <<remote, cache, clean, auth>>
    /\ UNCHANGED <<ui, workers>>
    /\ UNCHANGED loopVars

\* add_user(username, password)
AddUserCall(username, password, saveOk) ==
    /\ auth.constructed
    /\ IF username \in DOMAIN auth.users_data.users
       THEN /\ ret' = [op |-> "add_user", username |-> username, value |-> FALSE]
            /\ UNCHANGED auth
       ELSE \E data \in {[has_users |-> TRUE,
                          users |-> [u \in DOMAIN auth.users_data.users \cup {username} |->
                                       IF u = username THEN hash_password(password)
                                       ELSE auth.users_data.users[u]]]} :
               /\ auth' = [auth EXCEPT !.users_data = data,
                                       !.file = save_users(auth.file, data, saveOk)]
               /\ ret' = [op |-> "add_user", username |-> username, value |-> TRUE]
    /\ UNCHANGED <<remote, cache, clean>>
    /\ UNCHANGED <<ui, workers>>
    /\ UNCHANGED loopVars

\* change_password(username, old_password, new_password)
ChangePasswordCall(username, old_password, new_password, saveOk) ==
    /\ auth.constructed
    /\ IF ~authenticate(auth.users_data, username, old_password)
       THEN /\ ret' = [op |-> "change_password", username |-> username,
                       value |-> FALSE]
            /\ UNCHANGED auth
       ELSE \E data \in {[auth.users_data EXCEPT
                             !.users[username] = hash_password(new_password)]} :
               /\ auth' = [auth EXCEPT !.users_data = data,
                                       !.file = save_users(auth.file, data, saveOk)]
               /\ ret' = [op |-> "change_password", username |-> username,
                          value |-> TRUE]
    /\ UNCHANGED <<remote, cache, clean>>
    /\ UNCHANGED <<ui, workers>>
    /\ UNCHANGED loopVars

\* ------------------------------------------------------ calls of BuscaDWG
\* The first thread object not in use.
FreeWorker ==
    IF \E w \in ThreadIds : workers[w].pc = "off"
    THEN CHOOSE w \in ThreadIds :
            /\ workers[w].pc = "off"
            /\ \A v \in ThreadIds : workers[v].pc = "off" => w <= v
    ELSE NoThread

\* The UI thread is inside copiar_para_clipboard: no other handler runs.
ui_busy == \E w \in ThreadIds : workers[w].kind = "copiar_para_clipboard"

\* BuscaDWG.__init__ / inicializar_firebase: the startup thread is started
\* when FirebaseSync() succeeded and sincronizar_ao_iniciar is set.
UIInit(firebaseOk, sincronizar_ao_iniciar) ==
    /\ ui = "init"
    /\ ui' = IF firebaseOk THEN "ready" ELSE "offline"
    /\ workers' = IF firebaseOk /\ sincronizar_ao_iniciar
                  THEN [workers EXCEPT ![1] = [NoWorker EXCEPT !.pc = "list",
                                                               !.kind = "sync_thread"]]
                  ELSE workers
    /\ UNCHANGED <<remote, cache, ret, clean, auth>>
    /\ UNCHANGED loopVars

\* atualizar_lista (F5 / Atualizar): a new thread per call.
AtualizarLista ==
    /\ ui = "ready"
    /\ ~ui_busy
    /\ FreeWorker # NoThread
    /\ workers' = [workers EXCEPT ![FreeWorker] =
                      [NoWorker EXCEPT !.pc = "list", !.kind = "sync_and_reload"]]
    /\ UNCHANGED <<remote, cache, ret, clean, auth, ui>>
    /\ UNCHANGED loopVars

\* copiar_para_clipboard: download_file on the UI thread.
CopiarParaClipboard(caminho_remoto) ==
    /\ ui = "ready"
    /\ ~ui_busy
    /\ FreeWorker # NoThread
    /\ workers' = [workers EXCEPT ![FreeWorker] =
                      [NoWorker EXCEPT !.pc = "file", !.kind = "copiar_para_clipboard",
                                       !.todo = <<caminho_remoto>>]]
    /\ UNCHANGED <<remote, cache, ret, clean, auth, ui>>
    /\ UNCHANGED loopVars

\* download_all line 290: the listing.
WorkerList(w, listOk) ==
    /\ workers[w].pc = "list"
    /\ \E arquivos \in {list_files(remote, listOk)} :
          workers' = [workers EXCEPT ![w] =
                         IF Len(arquivos) = 0 THEN NoWorker
                         ELSE [@ EXCEPT !.pc = "file",
                                        !.todo = [k \in 1..Len(arquivos) |->
                                                     arquivos[k].caminho]]]
    /\ UNCHANGED <<remote, cache, ret, clean, auth, ui>>
    /\ UNCHANGED loopVars

\* download_file up to the moment download_to_filename has opened the
\* destination: the cache test, blob.exists(), and the truncation of the
\* local file.  A call that ends without a fetch returns here.
WorkerBegin(w, out, loaded) ==
    /\ workers[w].pc = "file"
    /\ \E p \in {Head(workers[w].todo)} :
       \E r \in {download_file(cache, remote, p, FALSE, out, loaded)} :
          IF r.fetch = 0
          THEN /\ ret' = [op |-> "worker_download_file", kind |-> workers[w].kind,
                          path |-> p, status |-> r.status, raced |-> FALSE]
               /\ workers' = [workers EXCEPT ![w] = next_file(@)]
               /\ UNCHANGED cache
          ELSE /\ cache' = [cache EXCEPT ![Basename(p)] = Partial]
               /\ workers' =
                     [v \in ThreadIds |->
                        IF v = w
                        THEN [workers[w] EXCEPT
                                 !.pc = "writing", !.body = remote[p],
                                 !.raced = \E u \in ThreadIds \ {w} :
                                              /\ workers[u].pc = "writing"
                                              /\ target(workers[u]) = Basename(p)]
                        ELSE IF /\ workers[v].pc = "writing"
                                /\ target(workers[v]) = Basename(p)
                        THEN [workers[v] EXCEPT !.raced = TRUE]
                        ELSE workers[v]]
               /\ UNCHANGED ret
    /\ clean' = FALSE
    /\ UNCHANGED <<remote, auth, ui>>
    /\ UNCHANGED loopVars

\* The end of download_to_filename and the return of download_file.  Two
\* threads that wrote the same file at the same time leave either the
\* bytes of the one that ends or a mixture of both.
WorkerEnd(w, end, mixed) ==
    /\ workers[w].pc = "writing"
    /\ mixed => (workers[w].raced /\ end = "ok")
    /\ cache' = [cache EXCEPT ![target(workers[w])] =
                    CASE end = "ok" -> IF mixed THEN Partial ELSE workers[w].body
                      [] end = "xfer" -> Partial
                      [] OTHER -> NoFile]
    /\ ret' = [op |-> "worker_download_file", kind |-> workers[w].kind,
               path |-> Head(workers[w].todo),
               status |-> IF end = "ok" THEN "downloaded" ELSE "None",
               raced |-> workers[w].raced]
    /\ workers' = [workers EXCEPT ![w] = next_file(@)]
    /\ clean' = FALSE
    /\ UNCHANGED <<remote, auth, ui>>
    /\ UNCHANGED loopVars

\* The thread object start_auto_sync constructs: the first one not in use.
NewThread == CHOOSE t \in ThreadIds :
                /\ ~is_alive(thr[t])
                /\ \A u \in ThreadIds : u < t => is_alive(thr[u])

\* start_auto_sync without its is_alive test.
already_running_never(st, threads) == FALSE

\* Line 321 testing the flag in place of the thread.
already_running_by_flag(st, threads) == running

\* The test start_auto_sync makes before it starts a thread.
already_running(st, threads) == st # NoThread /\ is_alive(threads[st])

\* start_auto_sync(interval): both branches return None; the rejection is
\* only printed.
start_auto_sync(interval) ==
    /\ callerPc = "idle"
    /\ IF already_running(sync_thread, thr)
       THEN /\ ret' = [op |-> "start_auto_sync", value |-> "None",
                       printed |-> "ja esta rodando"]
            /\ UNCHANGED loopVars
       ELSE /\ \E t \in ThreadIds : ~is_alive(thr[t])
            /\ running' = TRUE
            /\ thr' = [thr EXCEPT ![NewThread] =
                          [pc |-> "while", interval |-> interval, i |-> 0,
                           cycles |-> 0, caught |-> FALSE]]
            /\ sync_thread' = NewThread
            /\ stopReturned' = FALSE
            /\ sleptCleared' = 0
            /\ ret' = [op |-> "start_auto_sync", value |-> "None",
                       printed |-> "iniciada"]
            /\ UNCHANGED <<callerPc, joinLeft>>
    /\ UNCHANGED <<remote, cache, clean>>
    /\ UNCHANGED appVars

\* stop_auto_sync without its join.
joins_never(st) == FALSE

\* Whether stop_auto_sync waits for the thread: `if self.sync_thread:`.
joins(st) == st # NoThread

\* stop_auto_sync up to the join: clears the flag, then either returns at
\* once (no thread object) or blocks in join(timeout=5).
stop_auto_sync ==
    /\ callerPc = "idle"
    /\ running' = FALSE
    /\ IF joins(sync_thread)
       THEN /\ callerPc' = "joining"
            /\ joinLeft' = JoinTimeout
            /\ ret' = NoRet
            /\ UNCHANGED stopReturned
       ELSE /\ ret' = [op |-> "stop_auto_sync", value |-> "None",
                       printed |-> "parada", joined |-> TRUE]
            /\ stopReturned' = TRUE
            /\ UNCHANGED <<callerPc, joinLeft>>
    /\ UNCHANGED <<remote, cache, clean, sync_thread, thr, sleptCleared>>
    /\ UNCHANGED appVars

\* A join that does not wait out its timeout.
JoinDue_nowait == callerPc = "joining"

\* join returns: the thread has ended, or the timeout has run out.
JoinDue == callerPc = "joining" /\ (~is_alive(thr[sync_thread]) \/ joinLeft = 0)

stop_auto_sync_return ==
    /\ JoinDue
    /\ callerPc' = "idle"
    /\ joinLeft' = 0
    /\ ret' = [op |-> "stop_auto_sync", value |-> "None", printed |-> "parada",
               joined |-> ~is_alive(thr[sync_thread])]
    /\ stopReturned' = TRUE
    /\ UNCHANGED <<remote, cache, clean, running, sync_thread, thr, sleptCleared>>
    /\ UNCHANGED appVars

\* ------------------------------------------------- steps of _auto_sync_loop
LoopWhile(t) ==
    /\ thr[t].pc = "while"
    /\ thr' = [thr EXCEPT ![t] = while_step(thr[t], running)]
    /\ UNCHANGED <<remote, cache, running, sync_thread, callerPc, joinLeft, ret,
                   clean, stopReturned, sleptCleared>>
    /\ UNCHANGED appVars

\* The loop calls download_all: a reconciliation cycle starts.
LoopCall(t) ==
    /\ thr[t].pc = "call"
    /\ thr' = [thr EXCEPT ![t].pc = "cycle",
                           ![t].cycles = IF @ < MaxCycles THEN @ + 1 ELSE @]
    /\ UNCHANGED <<remote, cache, running, sync_thread, callerPc, joinLeft, ret,
                   clean, stopReturned, sleptCleared>>
    /\ UNCHANGED appVars

\* The cycle's download_all returns (its result is dropped, an exception is
\* printed) and the loop goes on to the wait.
LoopCycleEnd(t, outs, loaded, listOk, crash) ==
    /\ thr[t].pc = "cycle"
    /\ \E a \in {download_all(cache, remote, FALSE, outs, loaded, listOk)} :
          /\ cache' = IF crash = "before" THEN cache ELSE a.cache
          /\ clean' = (crash = "no" /\ listOk /\ ~a.raised /\ a.failed = 0)
    /\ thr' = [thr EXCEPT ![t] = cycle_end_step(thr[t], crash)]
    /\ UNCHANGED <<remote, running, sync_thread, callerPc, joinLeft, ret,
                   stopReturned, sleptCleared>>
    /\ UNCHANGED appVars

LoopFor(t) ==
    /\ thr[t].pc = "for"
    /\ thr' = [thr EXCEPT ![t] = for_step(thr[t], running)]
    /\ UNCHANGED <<remote, cache, running, sync_thread, callerPc, joinLeft, ret,
                   clean, stopReturned, sleptCleared>>
    /\ UNCHANGED appVars

\* -------------------------------------------------------------------- time
\* One second passes: every time.sleep(1) in progress returns and the join
\* timeout runs down.  No second passes while a step that takes no time is
\* pending.
Sleeping == {t \in ThreadIds : thr[t].pc = "sleep"}

Tick ==
    /\ \A t \in ThreadIds : thr[t].pc \notin {"while", "call", "for"}
    /\ ~JoinDue
    /\ Sleeping # {} \/ callerPc = "joining"
    /\ thr' = [t \in ThreadIds |->
                 IF t \in Sleeping
                 THEN [thr[t] EXCEPT !.pc = "for", !.i = @ + 1]
                 ELSE thr[t]]
    /\ joinLeft' = IF callerPc = "joining" THEN joinLeft - 1 ELSE joinLeft
    /\ sleptCleared' = IF ~running THEN sleptCleared + Cardinality(Sleeping)
                       ELSE sleptCleared
    /\ UNCHANGED <<remote, cache, running, sync_thread, callerPc, ret, clean,
                   stopReturned>>
    /\ UNCHANGED appVars

\* ---------------------------------------------------------- specifications
\* The faults of one download_all: one outcome for each object it lists.
Listed(rem) == {p \in DwgPaths : rem[p] # NoFile}
Faults(rem, listOk) == IF listOk THEN [Listed(rem) -> Outcomes] ELSE {<<>>}

\* The paths whose basenames are distinct (section 6 of the specification
\* leaves basename collisions out of scope).
MainPaths == {"CONTROLE/A.dwg", "CONTROLE/B.dwg"}

SyncCalls(paths) ==
    \/ \E p \in paths, force \in BOOLEAN, out \in Outcomes, loaded \in BOOLEAN :
          DownloadFileCall(p, force, out, loaded)
    \/ \E force \in BOOLEAN, loaded \in BOOLEAN, listOk \in BOOLEAN :
          \E outs \in Faults(remote, listOk) :
             DownloadAllCall(force, outs, loaded, listOk)
    \/ \E name \in {Basename(p) : p \in paths} : GetCachePathCall(name)
    \/ \E listOk \in BOOLEAN : ListFilesCall(listOk)
    \/ \E order \in ScanOrders, locked \in CacheNames \cup {NoName} :
          ClearCacheCall(order, locked)

PushCalls ==
    \/ \E folder \in Folders, folderOk \in BOOLEAN, listOk \in BOOLEAN :
          \E faults \in [FolderDwgs -> PushOutcomes] :
             SyncFolderCall(folder, folderOk, faults, listOk)
    \/ \E force \in BOOLEAN, dry_run \in BOOLEAN, confirmed \in BOOLEAN,
          folder \in Folders, folderOk \in BOOLEAN, listOk \in BOOLEAN :
          \E faults \in [FolderDwgs -> PushOutcomes] :
             SyncInicialCall(force, dry_run, confirmed, folder, folderOk, faults, listOk)

LoopSteps ==
    \/ \E interval \in Intervals : start_auto_sync(interval)
    \/ stop_auto_sync
    \/ stop_auto_sync_return
    \/ \E t \in ThreadIds : LoopWhile(t)
    \/ \E t \in ThreadIds : LoopCall(t)
    \/ \E t \in ThreadIds, loaded \in BOOLEAN, listOk \in BOOLEAN, crash \in Crashes :
          \E outs \in Faults(remote, listOk) :
             LoopCycleEnd(t, outs, loaded, listOk, crash)
    \/ \E t \in ThreadIds : LoopFor(t)
    \/ Tick

AuthCalls ==
    \/ \E saveOk \in BOOLEAN : AuthInit(saveOk)
    \/ \E username \in Usernames \cup {NoUsername}, password \in Passwords :
          AuthenticateCall(username, password)
    \/ \E username \in Usernames, password \in Passwords, saveOk \in BOOLEAN :
          AddUserCall(username, password, saveOk)
    \/ \E username \in Usernames \cup {NoUsername}, old_password \in Passwords,
          new_password \in Passwords, saveOk \in BOOLEAN :
          ChangePasswordCall(username, old_password, new_password, saveOk)

\* The one drawing of the bucket the client application is followed on.
ShownPaths == {"CONTROLE/A.dwg"}

UICalls ==
    \/ \E firebaseOk \in BOOLEAN, sincronizar_ao_iniciar \in BOOLEAN :
          UIInit(firebaseOk, sincronizar_ao_iniciar)
    \/ AtualizarLista
    \/ \E caminho_remoto \in ShownPaths : CopiarParaClipboard(caminho_remoto)
    \/ \E w \in ThreadIds, listOk \in BOOLEAN : WorkerList(w, listOk)
    \/ \E w \in ThreadIds, out \in {"ok", "neterr"}, loaded \in BOOLEAN :
          WorkerBegin(w, out, loaded)
    \/ \E w \in ThreadIds, end \in {"ok", "xfer", "corrupt"}, mixed \in BOOLEAN :
          WorkerEnd(w, end, mixed)

Next ==
    \/ \E p \in DwgPaths, b \in {NoFile} \cup Bodies : RemoteChange(p, b)
    \/ SyncCalls(DwgPaths)
    \/ PushCalls
    \/ LoopSteps
    \/ AuthCalls
    \/ UICalls

Spec == Init /\ [][Next]_vars

\* The cache and the calls that fill it, without the background loop, over
\* a bucket whose basenames are distinct.
InitSync ==
    /\ Init
    /\ auth.file = MissingFile
    /\ \A p \in DwgPaths \ MainPaths : remote[p] = NoFile

NextSync ==
    \/ \E p \in MainPaths, b \in {NoFile} \cup Bodies : RemoteChange(p, b)
    \/ SyncCalls(MainPaths)

SpecSync == InitSync /\ [][NextSync]_vars

\* The background loop over a bucket holding one drawing.
InitLoop ==
    /\ Init
    /\ auth.file = MissingFile
    /\ \A p \in DwgPaths : remote[p] = IF p = "CONTROLE/A.dwg" THEN 1 ELSE NoFile

SpecLoop == InitLoop /\ [][LoopSteps]_vars

\* The steps the scheduler and the clock take without the caller: every
\* thread that can run does run, a download_all in progress returns, time
\* passes, and a join that is due returns.
LoopProgress ==
    /\ \A t \in ThreadIds :
          /\ WF_vars(LoopWhile(t))
          /\ WF_vars(LoopCall(t))
          /\ WF_vars(LoopFor(t))
          /\ WF_vars(\E loaded \in BOOLEAN, listOk \in BOOLEAN, crash \in Crashes :
                        \E outs \in Faults(remote, listOk) :
                           LoopCycleEnd(t, outs, loaded, listOk, crash))
    /\ WF_vars(Tick)
    /\ WF_vars(stop_auto_sync_return)

SpecLoopFair == SpecLoop /\ LoopProgress

\* The administrator's uploads from a local folder into the bucket.
NextPush ==
    \/ \E p \in MainPaths, b \in {NoFile} \cup Bodies : RemoteChange(p, b)
    \/ PushCalls

SpecPush == InitSync /\ [][NextPush]_vars

\* The two paths of the bucket that share the basename A.dwg.
CollidingPaths == {p \in DwgPaths : Basename(p) = "A.dwg"}

\* The cache and the calls that fill it over a bucket whose drawings share
\* one basename.
InitCollide ==
    /\ Init
    /\ auth.file = MissingFile
    /\ \A p \in DwgPaths \ CollidingPaths : remote[p] = NoFile

NextCollide ==
    \/ \E p \in CollidingPaths, b \in {NoFile} \cup Bodies : RemoteChange(p, b)
    \/ SyncCalls(CollidingPaths)

SpecCollide == InitCollide /\ [][NextCollide]_vars

\* The client application over a bucket holding at most one drawing.
InitUI ==
    /\ Init
    /\ auth.file = MissingFile
    /\ \A p \in DwgPaths \ ShownPaths : remote[p] = NoFile

NextUI ==
    \/ \E p \in ShownPaths, b \in {NoFile} \cup Bodies : RemoteChange(p, b)
    \/ UICalls

SpecUI == InitUI /\ [][NextUI]_vars

\* The user accounts, over an empty bucket.
InitAuth ==
    /\ Init
    /\ \A p \in DwgPaths : remote[p] = NoFile

SpecAuth == InitAuth /\ [][AuthCalls]_vars

\* ================================================================ claims
SomeAlive == \E t \in ThreadIds : is_alive(thr[t])
AliveCount == Cardinality({t \in ThreadIds : is_alive(thr[t])})

\* A reconciliation cycle starts in this step.
CycleStarts == \E t \in ThreadIds : thr[t].pc # "cycle" /\ thr'[t].pc = "cycle"

\* C1: a download_file call without force, with the store reachable, for an
\* object whose bytes (hence digest) equal those of the file cached under
\* its name, makes no fetch and returns 'cached'.
C1_CachedWithoutFetch ==
    [][\A p \in DwgPaths, loaded \in BOOLEAN :
          (/\ local_state(cache, remote, p) = "same"
           /\ DownloadFileCall(p, FALSE, "ok", loaded))
          => (ret'.status = "cached" /\ ret'.fetch = 0)]_vars

\* C2: a download_file call that finds a valid cache entry (same bytes as
\* the remote object) returns 'cached' having made no network call at all.
C2_CachedWithoutNetwork ==
    [][\A p \in DwgPaths, out \in Outcomes, loaded \in BOOLEAN :
          (/\ local_state(cache, remote, p) = "same"
           /\ DownloadFileCall(p, FALSE, out, loaded))
          => (ret'.status = "cached" /\ ret'.net = 0)]_vars

\* C3 as stated: whenever the cached file differs from the existing remote
\* object, download_file fetches exactly once, returns 'downloaded' and the
\* cached file has the remote object's digest afterwards.
C3_AlwaysDownloaded ==
    [][\A p \in DwgPaths, out \in Outcomes, loaded \in BOOLEAN :
          (/\ remote[p] # NoFile
           /\ local_state(cache, remote, p) = "differs"
           /\ DownloadFileCall(p, FALSE, out, loaded))
          => (/\ ret'.fetch = 1
              /\ ret'.status = "downloaded"
              /\ calculate_md5(cache'[Basename(p)]) = calculate_md5(remote[p]))]_vars

\* C3 amended: when the cached file differs from the existing remote
\* object, download_file fetches at most once; with the store reachable it
\* fetches exactly once; when the fetch succeeds it returns 'downloaded' and
\* the cached file has the remote object's digest; otherwise it returns None.
C3_DownloadedOnceWhenFetchSucceeds ==
    [][\A p \in DwgPaths, out \in Outcomes, loaded \in BOOLEAN :
          (/\ ret'.op = "download_file"
           /\ ret'.path = p
           /\ ret'.loaded = loaded
           /\ remote[p] # NoFile
           /\ local_state(cache, remote, p) = "differs"
           /\ DownloadFileCall(p, FALSE, out, loaded))
          => (/\ ret'.fetch <= 1
              /\ out # "neterr" => ret'.fetch = 1
              /\ out = "ok" =>
                    /\ ret'.status = "downloaded"
                    /\ calculate_md5(cache'[Basename(p)]) = calculate_md5(remote[p])
              /\ out # "ok" => ret'.status = "None")]_vars

C3_Witness ==
    /\ ret.op = "download_file"
    /\ ret.pre = "differs"
    /\ ret.status = "downloaded"
    /\ ret.fetch = 1
    /\ remote[ret.path] # NoFile
    /\ cache[Basename(ret.path)] = remote[ret.path]

\* C4: download_all never raises and never stops early: it calls
\* download_file for every listed object, failed is the number of listed
\* objects whose download_file failed and downloaded + cached the number of
\* the others.
C4_PartialFailureIsolation ==
    ret.op = "download_all" =>
       /\ ~ret.raised
       /\ ret.calls = ret.listed
       /\ ret.stats.failed = ret.faulty
       /\ ret.stats.downloaded + ret.stats.cached = ret.listed - ret.faulty

C4_Witness ==
    /\ ret.op = "download_all"
    /\ ~ret.raised
    /\ ret.listed = 2
    /\ ret.faulty = 1
    /\ ret.stats.failed = 1
    /\ ret.stats.downloaded = 1
    /\ ret.calls = 2

C6_SecondPassAllCached ==
    (/\ ret.op = "download_all"
     /\ ~ret.raised
     /\ ret.wasClean
     /\ ~ret.force
     /\ ret.faulty = 0) =>
       /\ ret.stats.downloaded = 0
       /\ ret.stats.cached = ret.listed
       /\ ret.fetch = 0

\* C7: for a cached file whose bytes are those of the listed remote object,
\* _calculate_md5 of the file equals the md5_hash of the listing entry.
C7_DigestsComparable ==
    LET arquivos == list_files(remote, TRUE)
    IN \A k \in 1..Len(arquivos) :
          cache[arquivos[k].nome] = remote[arquivos[k].caminho]
          => calculate_md5(cache[arquivos[k].nome]) = arquivos[k].md5_hash

C10_AtMostOneSleepAfterClear == sleptCleared <= 1

C10_Witness ==
    /\ sleptCleared = 1
    /\ ~running
    /\ sync_thread # NoThread
    /\ thr[sync_thread].pc = "dead"
    /\ thr[sync_thread].i < thr[sync_thread].interval

\* C11 as stated: a stop_auto_sync whose join timed out with the thread still
\* alive returns a value other than the None of a clean stop.
C11_TimeoutReported ==
    (ret.op = "stop_auto_sync" /\ ~ret.joined) => ret.value # "None"

\* C11 amended: a stop_auto_sync returns with the thread still alive only
\* after the whole join timeout, the thread being inside download_all or on
\* its way out of the loop, and the flag cleared; it does not raise, and it
\* returns None and prints the same message as a clean stop.
C11_TimeoutReturnsLikeCleanStop ==
    [][(stop_auto_sync_return /\ is_alive(thr[sync_thread]))
          => (/\ joinLeft = 0
              /\ thr[sync_thread].pc \in {"cycle", "for", "while"}
              /\ ~running'
              /\ ret'.value = "None"
              /\ ret'.printed = "parada")]_vars

C11_Witness ==
    /\ ret.op = "stop_auto_sync"
    /\ ~ret.joined
    /\ ret.value = "None"
    /\ ret.printed = "parada"
    /\ thr[sync_thread].pc = "cycle"
    /\ ~running

\* C12: the cache directory never holds a partially written file under a
\* final name.
C12_NoPartialFile == \A n \in CacheNames : cache[n] # Partial

C14_FailureLeavesCacheUnchanged ==
    [][\A p \in DwgPaths, force \in BOOLEAN, out \in Outcomes, loaded \in BOOLEAN :
          (/\ out # "ok"
           /\ DownloadFileCall(p, force, out, loaded))
          => cache' = cache]_vars

\* C15 as stated: get_cache_path returns a local path only when a cache
\* entry exists for the name and returns absent otherwise.
C15_AbsentWithoutEntry ==
    (ret.op = "get_cache_path" /\ ~ret.exists) => ret.value = <<>>

\* C15 amended: get_cache_path returns the path of the name inside the cache
\* directory for every name, whether or not a file exists under it; it makes
\* no network call and changes neither the cache nor the bucket.
C15_PathForEveryName ==
    [][\A name \in CacheNames :
          (ret'.op = "get_cache_path" /\ GetCachePathCall(name))
          => (/\ ret'.value = <<cache_dir, name>>
              /\ ret'.net = 0
              /\ cache' = cache
              /\ remote' = remote)]_vars

C15_Witness ==
    /\ ret.op = "get_cache_path"
    /\ ~ret.exists
    /\ cache[ret.name] = NoFile
    /\ ret.value = <<cache_dir, ret.name>>
    /\ \E n \in CacheNames : cache[n] # NoFile

\* The bucket that holds no object.
EmptyBucket == [p \in Paths |-> NoFile]

\* C16: the result of list_files when the listing fails differs from its
\* result for an empty bucket.
C16_ListingFailureDistinguishable ==
    (ret.op = "list_files" /\ ret.failed)
        => ret.value # list_files(EmptyBucket, TRUE)

\* C17: sync_folder hands a local drawing to upload_file if and only if no
\* remote object has its name or the remote object's bytes differ from its
\* own; a drawing whose bytes equal the remote object's is counted as skipped.
C17_UploadsIffNewOrChanged ==
    (ret.op = "sync_folder" /\ ~ret.raised /\ ret.listOk)
        => (/\ ret.sent = ret.needed
            /\ ret.stats.skipped = Cardinality(ret.files \ ret.needed))

\* C18: a failure on one local file never aborts sync_folder: the call
\* returns a report and every local drawing is counted in it.
C18_PushFailureIsolation ==
    ret.op = "sync_folder"
        => (/\ ~ret.raised
            /\ ret.stats.uploaded + ret.stats.skipped + ret.stats.failed
                  = Cardinality(ret.files))

\* C19: download_all with force makes no cache test: it reports cached = 0
\* and downloaded + failed = the number of listed objects, it fetches every
\* listed object the store can be reached for, also when the cache already
\* holds the object's bytes, and its only network calls are one existence
\* test for each object and the fetches.
C19_ForceBypassesCacheTest ==
    (ret.op = "download_all" /\ ~ret.raised /\ ret.force) =>
       /\ ret.stats.cached = 0
       /\ ret.stats.downloaded + ret.stats.failed = ret.listed
       /\ ret.fetch = ret.listed - ret.unreachable
       /\ ret.net = ret.calls + ret.fetch

C19_Witness ==
    /\ ret.op = "download_all"
    /\ ~ret.raised
    /\ ret.force
    /\ ret.wasClean
    /\ ret.listed = 2
    /\ ret.stats.cached = 0
    /\ ret.stats.downloaded = 2
    /\ ret.fetch = 2
    /\ ret.net = 4

\* C20: when the blob carries no digest, download_file without force never
\* returns 'cached' for an existing local file; if the object exists and
\* the store answers, it fetches the object again and returns 'downloaded'.
C20_NoDigestNeverValid ==
    [][\A p \in DwgPaths, out \in Outcomes :
          (/\ ret'.op = "download_file"
           /\ ret'.path = p
           /\ ~ret'.loaded
           /\ cache[Basename(p)] # NoFile
           /\ DownloadFileCall(p, FALSE, out, FALSE))
          => (/\ ret'.status # "cached"
              /\ (remote[p] # NoFile /\ out = "ok")
                    => (/\ ret'.status = "downloaded"
                        /\ ret'.fetch = 1
                        /\ cache'[Basename(p)] = remote[p]))]_vars

C20_Witness ==
    /\ ret.op = "download_file"
    /\ ~ret.loaded
    /\ ret.pre = "same"
    /\ ret.status = "downloaded"
    /\ ret.fetch = 1
    /\ ret.net = 3
    /\ cache[Basename(ret.path)] = remote[ret.path]

C22_ClearLeavesNoFile ==
    ret.op = "clear_cache" => \A n \in CacheNames : cache[n] = NoFile

\* C23: once a file has been downloaded into the cache, download_file still
\* yields it when the store cannot be reached.
C23_CachedFileServedOffline ==
    [][\A p \in DwgPaths, loaded \in BOOLEAN :
          (/\ ret'.op = "download_file"
           /\ cache[Basename(p)] \in Bodies
           /\ DownloadFileCall(p, FALSE, "neterr", loaded))
          => ret'.status # "None"]_vars

C25_IntervalZeroDisabled ==
    \A t \in ThreadIds : thr[t].interval = 0 => thr[t].cycles <= 1

\* C26: in every report sync_folder returns after a successful listing,
\* uploaded + skipped + failed is the number of local drawings and skipped
\* is the number of drawings whose bytes equal the remote object's.
C26_PartitionCounts ==
    (ret.op = "sync_folder" /\ ~ret.raised /\ ret.listOk)
        => (/\ ret.stats.uploaded + ret.stats.skipped + ret.stats.failed
                  = Cardinality(ret.files)
            /\ ret.stats.skipped = Cardinality(ret.files \ ret.needed))

\* C27: in every report download_all returns, downloaded + cached + failed
\* is the number of objects its listing returned, each of which it passed
\* to download_file once.
C27_ReportCountsEveryListed ==
    (ret.op = "download_all" /\ ~ret.raised)
        => (/\ ret.stats.downloaded + ret.stats.cached + ret.stats.failed = ret.listed
            /\ ret.calls = ret.listed)

C27_Witness ==
    /\ ret.op = "download_all"
    /\ ~ret.raised
    /\ ~ret.force
    /\ ret.listed = 2
    /\ ret.unreachable = 1
    /\ ret.faulty = 2
    /\ ret.fetch = 1
    /\ ret.stats.failed = 2

\* C28: once the flag is cleared with a thread alive, that thread
\* eventually exits, given that its download_all in progress returns.
C28_StoppedTaskExits ==
    \A t \in ThreadIds :
       (~running /\ is_alive(thr[t])) ~> ~is_alive(thr[t])

C28_Witness ==
    /\ ~running
    /\ ret.op = "stop_auto_sync"
    /\ ret.joined
    /\ sync_thread # NoThread
    /\ thr[sync_thread].pc = "dead"
    /\ thr[sync_thread].cycles >= 1

\* C29: a start_auto_sync called after stop_auto_sync has returned leaves
\* periodic refresh running: the flag is set and the current thread alive.
C29_RestartAfterStop ==
    [][\A interval \in Intervals :
          (stopReturned /\ start_auto_sync(interval))
          => (running' /\ sync_thread' # NoThread /\ is_alive(thr'[sync_thread']))]_vars

\* C30: at most one background thread is alive at any time.
C30_AtMostOneAlive == AliveCount <= 1

C30_Witness ==
    /\ ret.op = "start_auto_sync"
    /\ ret.printed = "ja esta rodando"
    /\ ~running
    /\ stopReturned
    /\ AliveCount = 1
    /\ thr[sync_thread].pc = "cycle"

\* C31: a cycle of the loop, also one that ends with an exception, is
\* followed by the next cycle's call of download_all unless the running
\* flag is cleared.
C31_ExceptionDoesNotEndLoop ==
    \A t \in ThreadIds :
       (thr[t].pc = "cycle") ~> (thr[t].pc = "call" \/ ~running)

C31_Witness ==
    \E t \in ThreadIds :
       /\ running
       /\ thr[t].caught
       /\ thr[t].pc = "cycle"
       /\ thr[t].cycles = 2
       /\ thr[t].interval >= 1

\* C37: change_password with a current password whose hash is not the one
\* stored for the user (wrong password, or unknown user) returns False and
\* changes no account and not the users file; when it returns True the new
\* hash is stored.
C37_ChangeNeedsCurrentPassword ==
    [][\A username \in Usernames \cup {NoUsername}, old_password \in Passwords,
          new_password \in Passwords, saveOk \in BOOLEAN :
          (/\ ret'.op = "change_password"
           /\ ChangePasswordCall(username, old_password, new_password, saveOk))
          => IF /\ username \in DOMAIN auth.users_data.users
                /\ auth.users_data.users[username] = hash_password(old_password)
             THEN ret'.value = TRUE
                     => auth'.users_data.users[username] = hash_password(new_password)
             ELSE /\ ret'.value = FALSE
                  /\ auth' = auth]_vars

C37_Witness ==
    /\ ret.op = "change_password"
    /\ ret.value = FALSE
    /\ ret.username = "admin"
    /\ auth.users_data = DefaultUsers

\* C38: when the construction of an AuthManager is over, some account can
\* authenticate, whatever the users file held.
C38_SomeAccountAfterInit ==
    [][\A saveOk \in BOOLEAN :
          AuthInit(saveOk)
          => \E username \in Usernames, password \in Passwords :
                authenticate(auth'.users_data, username, password)]_vars

\* C35: download_file for a path the bucket holds no object under returns
\* None, calls download_to_filename not at all, and leaves the cache
\* directory and the bucket as they were.
C35_MissingObjectFailsWithoutEffect ==
    [][\A p \in DwgPaths, force \in BOOLEAN, out \in Outcomes, loaded \in BOOLEAN :
          (/\ ret'.op = "download_file"
           /\ ret'.path = p
           /\ ret'.loaded = loaded
           /\ remote[p] = NoFile
           /\ DownloadFileCall(p, force, out, loaded))
          => (/\ ret'.status = "None"
              /\ ret'.fetch = 0
              /\ cache' = cache
              /\ remote' = remote)]_vars

C35_Witness ==
    /\ ret.op = "download_file"
    /\ remote[ret.path] = NoFile
    /\ ret.pre = "differs"
    /\ ret.status = "None"
    /\ ret.fetch = 0
    /\ ret.net = 2
    /\ cache[Basename(ret.path)] \in Bodies

\* C36: download_file and download_all leave the bucket as it was and remove
\* no file from the cache directory.
C36_NoPushNoDelete ==
    [][(/\ ret'.op \in {"download_file", "download_all"}
        /\ \/ \E p \in DwgPaths, force \in BOOLEAN, out \in Outcomes, loaded \in BOOLEAN :
                 DownloadFileCall(p, force, out, loaded)
           \/ \E force \in BOOLEAN, loaded \in BOOLEAN, listOk \in BOOLEAN :
                 \E outs \in Faults(remote, listOk) :
                    DownloadAllCall(force, outs, loaded, listOk))
       => (/\ remote' = remote
           /\ \A n \in CacheNames : cache[n] # NoFile => cache'[n] # NoFile)]_vars

C32_OneWriterPerCacheFile ==
    \A w \in ThreadIds, v \in ThreadIds :
       (/\ w # v
        /\ workers[w].pc = "writing"
        /\ workers[v].pc = "writing")
       => target(workers[w]) # target(workers[v])

\* C34: a download_file that finds a local file whose bytes are not the
\* remote object's (stale, or half-written by another thread that is
\* writing it) does not return 'cached': it starts a fetch or returns None.
C34_NeverCachedWhenBytesDiffer ==
    [][\A w \in ThreadIds, out \in {"ok", "neterr"}, loaded \in BOOLEAN :
          (/\ workers[w].pc = "file"
           /\ cache[target(workers[w])] # remote[Head(workers[w].todo)]
           /\ WorkerBegin(w, out, loaded))
          => \/ workers'[w].pc = "writing"
             \/ ret'.status = "None"]_vars

C34_Witness ==
    \E w \in ThreadIds, v \in ThreadIds :
       /\ w # v
       /\ workers[w].pc = "writing"
       /\ workers[v].pc = "writing"
       /\ workers[w].kind = "copiar_para_clipboard"
       /\ target(workers[w]) = target(workers[v])
       /\ workers[w].raced
       /\ workers[v].raced
       /\ cache[target(workers[w])] = Partial

====
